---- MODULE Spec2Model ----
(***************************************************************************)
(* make-mine: bin/index.js.  Strings are sequences of one-character        *)
(* strings; a file's bytes are a sequence of byte names ("a" for an ASCII  *)
(* byte, "xFF" for the byte 0xFF) and decoded text is a sequence of        *)
(* characters ("a", "uFFFD" for U+FFFD).                                   *)
(***************************************************************************)
EXTENDS Integers, Sequences, FiniteSets, TLC

VARIABLES pc, repoUrl, projectName, cwdBase, result, fsys, templateName,
          displayName, rootFiles, modifiedFiles, effects, calls, exitCode

vars == <<pc, repoUrl, projectName, cwdBase, result, fsys, templateName,
          displayName, rootFiles, modifiedFiles, effects, calls, exitCode>>

(* ------------------------------ bounds --------------------------------- *)

\* longest short project name enumerated
MaxShort == 3
\* long project names have lengths within LongSlack of the length limit
LongSlack == 1
\* longest middle part of an enumerated repository URL (validateGitUrl)
MaxBody == 2
\* longest enumerated URL stem (getTemplateNameFromRepo)
MaxStem == 3

(* ------------------------------ strings -------------------------------- *)

Letters ==
    {"a","b","c","d","e","f","g","h","i","j","k","l","m","n","o","p","q","r",
     "s","t","u","v","w","x","y","z","A","B","C","D","E","F","G","H","I","J",
     "K","L","M","N","O","P","Q","R","S","T","U","V","W","X","Y","Z"}

Digits == {"0","1","2","3","4","5","6","7","8","9"}

\* the characters \s matches, among those the model writes
Whitespace == {" ", "\t", "\n", "\r", "\f"}

StringsUpTo(alphabet, n) == UNION {[1..k -> alphabet] : k \in 0..n}

IsPrefix(p, s) == Len(p) <= Len(s) /\ SubSeq(s, 1, Len(p)) = p

Tail_(s, from) == SubSeq(s, from, Len(s))

DotGit == <<".", "g", "i", "t">>

NoResult == [threw |-> FALSE, value |-> <<"?">>, error |-> "unset"]

Return(v) == [threw |-> FALSE, value |-> v, error |-> "none"]

Throw(kind) == [threw |-> TRUE, value |-> <<>>, error |-> kind]

(* --------------------------- validateGitUrl ---------------------------- *)

GitUrlPrefixes ==
    { <<"h","t","t","p",":","/","/">>,
      <<"h","t","t","p","s",":","/","/">>,
      <<"g","i","t","@">> }

\* /^(https?:\/\/|git@)([^\s]+)(\.git)?$/ without the end anchor
gitUrlPatternUnanchored(url) ==
    \E p \in GitUrlPrefixes :
        /\ IsPrefix(p, url)
        /\ Len(url) > Len(p)
        /\ url[Len(p) + 1] \notin Whitespace

\* /^(https?:\/\/|git@)([^\s]+)(\.git)?$/ .test(url)
gitUrlPattern(url) ==
    \E p \in GitUrlPrefixes :
        /\ IsPrefix(p, url)
        /\ \E k \in 1..(Len(url) - Len(p)) :
              /\ \A i \in (Len(p) + 1)..(Len(p) + k) : url[i] \notin Whitespace
              /\ Tail_(url, Len(p) + k + 1) \in {<<>>, DotGit}

validateGitUrl(url) ==
    IF ~gitUrlPattern(url) THEN Throw("InvalidUrlFormat") ELSE Return(url)

(* ------------------------- validateProjectName ------------------------- *)

PLACEHOLDER_PROJECT_NAME == <<"T","E","M","P","L","A","T","E">>

MaxNameLength == 214

\* /^[a-zA-Z0-9-_.]+$/
namePattern(name) ==
    /\ Len(name) >= 1
    /\ \A i \in 1..Len(name) : name[i] \in Letters \cup Digits \cup {"-", "_", "."}

\* /^[a-zA-Z0-9]/
startsWithPattern(name) ==
    Len(name) >= 1 /\ name[1] \in Letters \cup Digits

\* /^<[^>]+>$/
placeholderPattern(name) ==
    /\ Len(name) >= 3
    /\ name[1] = "<"
    /\ name[Len(name)] = ">"
    /\ \A i \in 2..(Len(name) - 1) : name[i] # ">"

\* the character-class check moved in front of the placeholder check
validateProjectNameClassFirst(name) ==
    IF name = <<".">> THEN Return(name)
    ELSE IF ~namePattern(name) THEN Throw("InvalidCharacters")
    ELSE IF placeholderPattern(name) THEN Throw("PlaceholderName")
    ELSE IF name = PLACEHOLDER_PROJECT_NAME THEN Throw("ReservedName")
    ELSE IF ~startsWithPattern(name) THEN Throw("InvalidStart")
    ELSE IF Len(name) > MaxNameLength THEN Throw("TooLong")
    ELSE Return(name)

validateProjectName(name) ==
    IF name = <<".">> THEN Return(name)
    ELSE IF placeholderPattern(name) THEN Throw("PlaceholderName")
    ELSE IF name = PLACEHOLDER_PROJECT_NAME THEN Throw("ReservedName")
    ELSE IF ~namePattern(name) THEN Throw("InvalidCharacters")
    ELSE IF ~startsWithPattern(name) THEN Throw("InvalidStart")
    ELSE IF Len(name) > MaxNameLength THEN Throw("TooLong")
    ELSE Return(name)

(* ----------------------- getTemplateNameFromRepo ----------------------- *)

TemplateFallback ==
    <<"t","e","m","p","l","a","t","e","-","p","r","o","j","e","c","t">>

\* /\/([^/]+?)(\.git)?$/ matched with "/" at position i and a first group of
\* k characters
templateMatchAt(url, i, k) ==
    /\ url[i] = "/"
    /\ i + k <= Len(url)
    /\ \A j \in (i + 1)..(i + k) : url[j] # "/"
    /\ Tail_(url, i + k + 1) \in {<<>>, DotGit}

\* repoUrl.match(...): leftmost start, then the shortest first group (lazy +?)
getTemplateNameFromRepo(url) ==
    LET starts == {i \in 1..Len(url) :
                      \E k \in 1..Len(url) : templateMatchAt(url, i, k)}
    IN  IF starts = {} THEN TemplateFallback
        ELSE LET i == CHOOSE x \in starts : \A y \in starts : x <= y
                 ks == {k \in 1..Len(url) : templateMatchAt(url, i, k)}
                 k == CHOOSE x \in ks : \A y \in ks : x <= y
             IN  SubSeq(url, i + 1, i + k)

(* ------------------------- files and their text ------------------------ *)

\* an entry of a directory: a regular file, a directory (bytes: the content
\* of a file nested in it), or a symlink to a file (bytes: the target's
\* content), to a directory, or to nothing
File(bytes, mode) == [kind |-> "file", bytes |-> bytes, mode |-> mode]

Continuation == {"xBF", "xBD"}

\* the character a three-byte sequence EF b2 b3 encodes
Char3(b2, b3) ==
    IF b2 = "xBF" THEN (IF b3 = "xBD" THEN "uFFFD" ELSE "uFFFF")
    ELSE (IF b3 = "xBD" THEN "uFF7D" ELSE "uFF7F")

RECURSIVE DecodeFrom(_, _)
\* buffer.toString('utf8'): an ill-formed sequence decodes to U+FFFD
DecodeFrom(b, i) ==
    IF i > Len(b) THEN <<>>
    ELSE IF b[i] = "xEF" THEN
        IF i + 1 <= Len(b) /\ b[i + 1] \in Continuation THEN
            IF i + 2 <= Len(b) /\ b[i + 2] \in Continuation
            THEN <<Char3(b[i + 1], b[i + 2])>> \o DecodeFrom(b, i + 3)
            ELSE <<"uFFFD">> \o DecodeFrom(b, i + 2)
        ELSE <<"uFFFD">> \o DecodeFrom(b, i + 1)
    ELSE IF b[i] \in Continuation \cup {"xFF"}
        THEN <<"uFFFD">> \o DecodeFrom(b, i + 1)
    ELSE <<b[i]>> \o DecodeFrom(b, i + 1)

Decode(b) == DecodeFrom(b, 1)

EncodeChar(c) ==
    CASE c = "uFFFD" -> <<"xEF", "xBF", "xBD">>
      [] c = "uFFFF" -> <<"xEF", "xBF", "xBF">>
      [] c = "uFF7D" -> <<"xEF", "xBD", "xBD">>
      [] c = "uFF7F" -> <<"xEF", "xBD", "xBF">>
      [] OTHER -> <<c>>

RECURSIVE Encode(_)
\* Buffer.from(text, 'utf8')
Encode(text) ==
    IF text = <<>> THEN <<>> ELSE EncodeChar(Head(text)) \o Encode(Tail(text))

(* --------------------------- new RegExp(oldName) ----------------------- *)

LineTerminators == {"\n", "\r"}

\* new RegExp(source) throws SyntaxError: a "(" that no ")" closes
RegExpSyntaxError(source) ==
    \E i \in 1..Len(source) :
        source[i] = "(" /\ \A j \in (i + 1)..Len(source) : source[j] # ")"

\* one pattern character against one character of the text: "." is any
\* character but a line terminator, every other character is itself
AtomMatches(atom, c) ==
    IF atom = "." THEN c \notin LineTerminators ELSE atom = c

\* the pattern matches the text at position i (it has no quantifier, so a
\* match is as long as the pattern)
MatchesAt(text, source, i) ==
    /\ i + Len(source) - 1 <= Len(text)
    /\ \A j \in 1..Len(source) : AtomMatches(source[j], text[i + j - 1])

HasMatch(text, source) ==
    /\ ~RegExpSyntaxError(source)
    /\ \E i \in 1..(Len(text) + 1) : MatchesAt(text, source, i)

RECURSIVE ReplaceFrom(_, _, _, _)
\* text.replace(new RegExp(source, 'g'), newName) from position i on: the
\* matches are taken left to right and do not overlap; after an empty match
\* the scan moves on by one character
ReplaceFrom(text, source, newName, i) ==
    IF i > Len(text) THEN
        (IF Len(source) = 0 THEN newName ELSE <<>>)
    ELSE IF MatchesAt(text, source, i) THEN
        IF Len(source) = 0
        THEN newName \o <<text[i]>> \o ReplaceFrom(text, source, newName, i + 1)
        ELSE newName \o ReplaceFrom(text, source, newName, i + Len(source))
    ELSE <<text[i]>> \o ReplaceFrom(text, source, newName, i + 1)

Replace(text, source, newName) == ReplaceFrom(text, source, newName, 1)

(* --------------------------- updateFileContent ------------------------- *)

\* fs.readFileSync succeeds
Readable(file) == file.kind \in {"file", "linkfile"} /\ file.mode \in {"rw", "ro"}

\* fs.writeFileSync succeeds
Writable(file) == file.kind \in {"file", "linkfile"} /\ file.mode = "rw"

\* the catch block: log the skip, return false
Skipped(file, step) ==
    [file |-> file, returned |-> FALSE, raised |-> FALSE, wrote |-> FALSE,
     failed |-> step]

\* the pattern built outside the try block
updateFileContentRegExpOutsideTry(file, oldName, newName) ==
    IF RegExpSyntaxError(oldName)
    THEN [file |-> file, returned |-> FALSE, raised |-> TRUE, wrote |-> FALSE,
          failed |-> "regexp"]
    ELSE IF ~Readable(file) THEN Skipped(file, "read")
    ELSE IF ~Writable(file) THEN Skipped(file, "write")
    ELSE LET content == Decode(file.bytes)
             newContent == Replace(content, oldName, newName)
         IN  [file |-> [file EXCEPT !.bytes = Encode(newContent)],
              returned |-> content # newContent, raised |-> FALSE,
              wrote |-> TRUE, failed |-> "none"]

\* return true in place of content !== newContent
updateFileContentAlwaysTrue(file, oldName, newName) ==
    IF ~Readable(file) THEN Skipped(file, "read")
    ELSE IF RegExpSyntaxError(oldName) THEN Skipped(file, "regexp")
    ELSE IF ~Writable(file) THEN Skipped(file, "write")
    ELSE LET content == Decode(file.bytes)
             newContent == Replace(content, oldName, newName)
         IN  [file |-> [file EXCEPT !.bytes = Encode(newContent)],
              returned |-> TRUE, raised |-> FALSE,
              wrote |-> TRUE, failed |-> "none"]

updateFileContent(file, oldName, newName) ==
    IF ~Readable(file) THEN Skipped(file, "read")
    ELSE LET content == Decode(file.bytes) IN
        IF RegExpSyntaxError(oldName) THEN Skipped(file, "regexp")
        ELSE LET newContent == Replace(content, oldName, newName) IN
            IF ~Writable(file) THEN Skipped(file, "write")
            ELSE [file |-> [file EXCEPT !.bytes = Encode(newContent)],
                  returned |-> content # newContent, raised |-> FALSE,
                  wrote |-> TRUE, failed |-> "none"]

(* ------------------- the state outside a specification ----------------- *)

NoText == <<"?">>

NoFiles == [n \in {} |-> File(<<>>, "rw")]

ProjectIdle ==
    /\ cwdBase = NoText
    /\ rootFiles = <<>>
    /\ modifiedFiles = 0
    /\ effects = <<>>
    /\ exitCode = 0

ProjectUnchanged ==
    UNCHANGED <<cwdBase, rootFiles, modifiedFiles, effects, exitCode>>

(* --------------- validateProjectName on its own: SpecName -------------- *)

NameAlphabet == {"a", "T", "1", "-", ".", "<", ">", " "}

LongNames ==
    {[i \in 1..n |-> IF i = 1 THEN h ELSE IF i = n THEN t ELSE "a"] :
        n \in (MaxNameLength - LongSlack)..(MaxNameLength + LongSlack),
        h \in {"a", "-", "<", " "}, t \in {"a", ">", " "}}

NameInputs ==
    StringsUpTo(NameAlphabet, MaxShort)
        \cup {PLACEHOLDER_PROJECT_NAME, <<"t","e","m","p","l","a","t","e">>}
        \cup LongNames

InitName ==
    /\ pc = "start"
    /\ projectName \in NameInputs
    /\ result = NoResult
    /\ repoUrl = NoText /\ templateName = NoText /\ displayName = NoText
    /\ fsys = NoFiles /\ calls = <<>>
    /\ ProjectIdle

ValidateName ==
    /\ pc = "start"
    /\ result' = validateProjectName(projectName)
    /\ pc' = "done"
    /\ UNCHANGED <<repoUrl, projectName, templateName, displayName, fsys, calls>>
    /\ ProjectUnchanged

NextName == ValidateName

SpecName == InitName /\ [][NextName]_vars

(* ------------------ validateGitUrl on its own: SpecUrl ----------------- *)

UrlHeads ==
    GitUrlPrefixes \cup
    { <<>>, <<"h","t","t","p",":","/">>, <<" ","g","i","t","@">>,
      <<"f","t","p",":","/","/">>, <<"h","t","t","p","s","s",":","/","/">> }

UrlTails == {<<>>, DotGit, DotGit \o <<" ">>}

UrlInputs ==
    {h \o b \o t : h \in UrlHeads,
                   b \in StringsUpTo({"x", "/", " ", "\n"}, MaxBody),
                   t \in UrlTails}

InitUrl ==
    /\ pc = "start"
    /\ repoUrl \in UrlInputs
    /\ result = NoResult
    /\ projectName = NoText /\ templateName = NoText /\ displayName = NoText
    /\ fsys = NoFiles /\ calls = <<>>
    /\ ProjectIdle

ValidateUrl ==
    /\ pc = "start"
    /\ result' = validateGitUrl(repoUrl)
    /\ pc' = "done"
    /\ UNCHANGED <<repoUrl, projectName, templateName, displayName, fsys, calls>>
    /\ ProjectUnchanged

NextUrl == ValidateUrl

SpecUrl == InitUrl /\ [][NextUrl]_vars

(* ------------- getTemplateNameFromRepo on its own: SpecExtract --------- *)

ExtractInputs ==
    {s \o t : s \in StringsUpTo({"/", "a", "."}, MaxStem),
              t \in {<<>>, DotGit, DotGit \o <<"/">>, DotGit \o DotGit}}

InitExtract ==
    /\ pc = "start"
    /\ repoUrl \in ExtractInputs
    /\ templateName = NoText
    /\ result = NoResult
    /\ projectName = NoText /\ displayName = NoText
    /\ fsys = NoFiles /\ calls = <<>>
    /\ ProjectIdle

ExtractTemplateName ==
    /\ pc = "start"
    /\ templateName' = getTemplateNameFromRepo(repoUrl)
    /\ pc' = "done"
    /\ UNCHANGED <<repoUrl, projectName, result, displayName, fsys, calls>>
    /\ ProjectUnchanged

NextExtract == ExtractTemplateName

SpecExtract == InitExtract /\ [][NextExtract]_vars

(* ---------------- updateFileContent on its own: SpecRewrite ------------ *)

\* longest enumerated file content, in bytes
MaxContent == 3
\* longest enumerated oldName and newName
MaxToken == 2
\* calls of updateFileContent on the one file
MaxCalls == 2

ContentBytes == {"a", "b", "xFF"}

\* the template name is never empty (getTemplateNameFromRepo) and neither is
\* the validated display name
OldTokens == StringsUpTo({"a", ".", "("}, MaxToken) \ {<<>>}

NewTokens == StringsUpTo({"a", "b"}, MaxToken) \ {<<>>}

InitRewrite ==
    /\ pc = "start"
    /\ \E bytes \in StringsUpTo(ContentBytes, MaxContent),
          mode \in {"rw", "ro", "none"} :
            fsys = [n \in {"f"} |-> File(bytes, mode)]
    /\ templateName \in OldTokens
    /\ displayName \in NewTokens
    /\ calls = <<>>
    /\ repoUrl = NoText /\ projectName = NoText /\ result = NoResult
    /\ ProjectIdle

\* what a call of updateFileContent on entry n did
CallRecord(n, before, r) ==
    [name |-> n, before |-> before.bytes, after |-> r.file.bytes,
     returned |-> r.returned, raised |-> r.raised, wrote |-> r.wrote,
     failed |-> r.failed]

UpdateFile ==
    /\ Len(calls) < MaxCalls
    /\ LET r == updateFileContent(fsys["f"], templateName, displayName)
       IN  /\ fsys' = [fsys EXCEPT !["f"] = r.file]
           /\ calls' = Append(calls, CallRecord("f", fsys["f"], r))
    /\ pc' = "called"
    /\ UNCHANGED <<repoUrl, projectName, result, templateName, displayName>>
    /\ ProjectUnchanged

NextRewrite == UpdateFile

SpecRewrite == InitRewrite /\ [][NextRewrite]_vars

(* ------------------------- createProject: Spec ------------------------- *)

\* entries of the template repository's root directory
MaxEntries == 2

AllNames == <<".git", "e1", "e2", "e3", "e4">>

EntryNames == {AllNames[i + 1] : i \in 1..MaxEntries}

Entry(kind, bytes) == [kind |-> kind, bytes |-> bytes, mode |-> "rw"]

EntryChoices ==
    {Entry("file", b) : b \in {<<"t">>, <<"x">>, <<"xFF">>}}
        \cup {Entry("dir", b) : b \in {<<"t">>, <<"x">>}}
        \cup {Entry("linkfile", b) : b \in {<<"t">>, <<"x">>}}
        \cup {Entry("linkdir", <<>>), Entry("linkbroken", <<>>)}

TemplateTrees == [EntryNames -> EntryChoices]

GitDir == [n \in {".git"} |-> Entry("dir", <<>>)]

ProjectUrls ==
    { <<"h","t","t","p","s",":","/","/","h","/","t">>,
      <<"h","t","t","p","s",":","/","/","h","/","t",".","g","i","t">>,
      <<"h","t","t","p","s",":","/","/","h","/","t","/">>,
      <<"h","/","t">> }

ProjectNames == { <<"p">>, <<".">>, <<"<","p",">">> }

CwdBases == { <<"q">>, <<"m"," ","y">> }

Init ==
    /\ pc = "validate"
    /\ repoUrl \in ProjectUrls
    /\ projectName \in ProjectNames
    /\ cwdBase \in CwdBases
    /\ result = NoResult
    /\ fsys = NoFiles
    /\ templateName = NoText
    /\ displayName = NoText
    /\ rootFiles = <<>>
    /\ modifiedFiles = 0
    /\ effects = <<>>
    /\ calls = <<>>
    /\ exitCode = 0

\* the validations with the display name of the current directory left out
ValidationOutcomeNoDisplayName(url, name, base) ==
    LET r1 == validateGitUrl(url)
        r2 == validateProjectName(name)
    IN  IF r1.threw THEN r1
        ELSE IF r2.threw THEN r2
        ELSE Return(IF name = <<".">> THEN base ELSE name)

\* the validations of createProject: what is thrown first, or the display name
ValidationOutcome(url, name, base) ==
    LET r1 == validateGitUrl(url)
        r2 == validateProjectName(name)
        isCurrentDir == name = <<".">>
        display == IF isCurrentDir THEN base ELSE name
        r3 == validateProjectName(display)
    IN  IF r1.threw THEN r1
        ELSE IF r2.threw THEN r2
        ELSE IF isCurrentDir /\ r3.threw THEN r3
        ELSE Return(display)

\* the catch block of createProject: print the error, process.exit(1)
Fail(error) ==
    /\ pc' = "exited"
    /\ result' = Throw(error)
    /\ exitCode' = 1

Validate ==
    /\ pc = "validate"
    /\ LET r == ValidationOutcome(repoUrl, projectName, cwdBase)
       IN  IF r.threw
           THEN /\ Fail(r.error)
                /\ effects' = Append(effects, "exit")
                /\ UNCHANGED displayName
           ELSE /\ displayName' = r.value
                /\ pc' = IF projectName = <<".">> THEN "clone" ELSE "mkdir"
                /\ UNCHANGED <<result, exitCode, effects>>
    /\ UNCHANGED <<repoUrl, projectName, cwdBase, fsys, templateName, rootFiles,
                   modifiedFiles, calls>>

\* a step that runs an external command or a file system call, which may fail
External(at, step, error, next) ==
    /\ pc = at
    /\ \/ /\ effects' = Append(effects, step)
          /\ pc' = next
          /\ UNCHANGED <<result, exitCode>>
       \/ /\ effects' = Append(Append(effects, step), "exit")
          /\ Fail(error)
          /\ UNCHANGED <<fsys, templateName>>

MakeDir ==
    /\ External("mkdir", "mkdir", "mkdirSync", "clone")
    /\ UNCHANGED <<repoUrl, projectName, cwdBase, fsys, templateName,
                   displayName, rootFiles, modifiedFiles, calls>>

Clone ==
    /\ External("clone", "clone", "git clone", "rmgit")
    /\ pc' = "rmgit" =>
          /\ \E tree \in TemplateTrees : fsys' = (tree @@ GitDir)
          /\ templateName' = getTemplateNameFromRepo(repoUrl)
    /\ UNCHANGED <<repoUrl, projectName, cwdBase, displayName, rootFiles,
                   modifiedFiles, calls>>

RemoveGit ==
    /\ External("rmgit", "rmgit", "rm -rf .git", "init")
    /\ pc' = "init" =>
          /\ fsys' = [n \in DOMAIN fsys \ {".git"} |-> fsys[n]]
          /\ UNCHANGED templateName
    /\ UNCHANGED <<repoUrl, projectName, cwdBase, displayName, rootFiles,
                   modifiedFiles, calls>>

GitInit ==
    /\ External("init", "init", "git init", "list")
    /\ pc' = "list" =>
          /\ fsys' = (fsys @@ GitDir)
          /\ UNCHANGED templateName
    /\ UNCHANGED <<repoUrl, projectName, cwdBase, displayName, rootFiles,
                   modifiedFiles, calls>>

\* fs.readdirSync('.')
Readdir(fs) == SelectSeq(AllNames, LAMBDA n : n \in DOMAIN fs)

\* fs.statSync(file) throws: stat follows a symlink, and this one leads nowhere
StatThrows(entry) == entry.kind = "linkbroken"

\* fs.statSync(file).isFile(): stat follows a symlink to its target
StatIsFile(entry) == entry.kind \in {"file", "linkfile"}

ListRootFiles ==
    /\ pc = "list"
    /\ IF \E n \in DOMAIN fsys : StatThrows(fsys[n])
       THEN /\ effects' = Append(Append(effects, "substitute"), "exit")
            /\ Fail("statSync")
            /\ UNCHANGED rootFiles
       ELSE /\ effects' = Append(effects, "substitute")
            /\ rootFiles' = SelectSeq(Readdir(fsys), LAMBDA n : StatIsFile(fsys[n]))
            /\ pc' = "update"
            /\ UNCHANGED <<result, exitCode>>
    /\ modifiedFiles' = 0
    /\ UNCHANGED <<repoUrl, projectName, cwdBase, fsys, templateName,
                   displayName, calls>>

\* one round of rootFiles.forEach
UpdateNextFile ==
    /\ pc = "update"
    /\ rootFiles # <<>>
    /\ LET file == Head(rootFiles)
           r == updateFileContent(fsys[file], templateName, displayName)
       IN  /\ fsys' = [fsys EXCEPT ![file] = r.file]
           /\ calls' = Append(calls, CallRecord(file, fsys[file], r))
           /\ IF r.raised
              THEN /\ effects' = Append(effects, "exit")
                   /\ Fail("updateFileContent")
                   /\ UNCHANGED <<rootFiles, modifiedFiles>>
              ELSE /\ rootFiles' = Tail(rootFiles)
                   /\ modifiedFiles' =
                         IF r.returned THEN modifiedFiles + 1 ELSE modifiedFiles
                   /\ UNCHANGED <<pc, result, exitCode, effects>>
    /\ UNCHANGED <<repoUrl, projectName, cwdBase, templateName, displayName>>

\* "Project successfully created!", "Modified N files"
Report ==
    /\ pc = "update"
    /\ rootFiles = <<>>
    /\ effects' = Append(effects, "report")
    /\ pc' = "done"
    /\ UNCHANGED <<repoUrl, projectName, cwdBase, result, fsys, templateName,
                   displayName, rootFiles, modifiedFiles, calls, exitCode>>

Next ==
    \/ Validate
    \/ MakeDir
    \/ Clone
    \/ RemoveGit
    \/ GitInit
    \/ ListRootFiles
    \/ UpdateNextFile
    \/ Report

Spec == Init /\ [][Next]_vars

(* ------------------------------- claims -------------------------------- *)

\* the rules of the validator's contract, in its order
RuleApplies(n, name) ==
    CASE n = 1 -> name = <<".">>
      [] n = 2 -> /\ Len(name) >= 3
                  /\ Head(name) = "<"
                  /\ name[Len(name)] = ">"
                  /\ ~\E i \in 2..(Len(name) - 1) : name[i] = ">"
      [] n = 3 -> name = <<"T","E","M","P","L","A","T","E">>
      [] n = 4 -> \/ name = <<>>
                  \/ \E i \in 1..Len(name) :
                        name[i] \notin Letters \cup Digits \cup {"-", "_", "."}
      [] n = 5 -> name # <<>> /\ Head(name) \notin Letters \cup Digits
      [] n = 6 -> Len(name) > 214
      [] n = 7 -> TRUE

RuleOutcome(n, name) ==
    CASE n = 1 -> Return(name)
      [] n = 2 -> Throw("PlaceholderName")
      [] n = 3 -> Throw("ReservedName")
      [] n = 4 -> Throw("InvalidCharacters")
      [] n = 5 -> Throw("InvalidStart")
      [] n = 6 -> Throw("TooLong")
      [] n = 7 -> Return(name)

FirstRule(name) ==
    CHOOSE n \in 1..7 :
        RuleApplies(n, name) /\ \A m \in 1..(n - 1) : ~RuleApplies(m, name)

\* C1: validateProjectName(name) has the outcome of the first rule that
\* applies, in the order "." / placeholder / TEMPLATE / characters / start /
\* length / accept; an accepted name is returned unchanged
C1_FirstApplicableRule ==
    pc = "done" => result = RuleOutcome(FirstRule(projectName), projectName)

\* a 215-character name of valid characters has been refused as too long
C1_Witness ==
    /\ pc = "done"
    /\ Len(projectName) = 215
    /\ result = Throw("TooLong")

\* the URL is one of the three prefixes followed by one or more characters,
\* none of them whitespace
WellFormedUrl(url) ==
    \E p \in GitUrlPrefixes :
        /\ IsPrefix(p, url)
        /\ Len(url) > Len(p)
        /\ \A i \in (Len(p) + 1)..Len(url) : url[i] \notin Whitespace

\* C9: validateGitUrl(url) returns url unchanged exactly when url is a prefix
\* http://, https:// or git@ followed by one or more non-whitespace
\* characters, and fails with InvalidUrlFormat for every other string
C9_UrlAcceptedIffWellFormed ==
    pc = "done" =>
        /\ WellFormedUrl(repoUrl) => result = Return(repoUrl)
        /\ ~WellFormedUrl(repoUrl) => result = Throw("InvalidUrlFormat")

\* a URL with a good prefix and whitespace after it is refused
C9_Witness ==
    /\ pc = "done"
    /\ \E p \in GitUrlPrefixes : IsPrefix(p, repoUrl) /\ Len(repoUrl) > Len(p) + 1
    /\ repoUrl[Len(repoUrl)] \in Whitespace
    /\ result = Throw("InvalidUrlFormat")

HasSlash(url) == \E i \in 1..Len(url) : url[i] = "/"

AfterLastSlash(url) ==
    LET last == CHOOSE i \in 1..Len(url) :
                    url[i] = "/" /\ \A j \in (i + 1)..Len(url) : url[j] # "/"
    IN  Tail_(url, last + 1)

StripDotGit(s) ==
    IF Len(s) >= 4 /\ Tail_(s, Len(s) - 3) = DotGit
    THEN SubSeq(s, 1, Len(s) - 4) ELSE s

\* C5: for a URL with a "/", getTemplateNameFromRepo returns the text after
\* the last "/" without one trailing ".git"; it returns the fallback
\* template-project if and only if the URL has no "/"
C5_LastSegmentOrFallback ==
    pc = "done" =>
        /\ HasSlash(repoUrl) =>
              templateName = StripDotGit(AfterLastSlash(repoUrl))
        /\ (templateName = TemplateFallback) <=> ~HasSlash(repoUrl)

\* the text a call read and the text the substitution made of it
TextRead(c) == Decode(c.before)

TextSubstituted(c) == Replace(TextRead(c), templateName, displayName)

\* C2: a call that completes on a readable file writes the file only if the
\* substituted content differs from the content read, and returns whether it
\* differs
C2_WriteOnlyIfChanged ==
    \A k \in 1..Len(calls) :
        calls[k].failed = "none" =>
            /\ TextSubstituted(calls[k]) = TextRead(calls[k]) => ~calls[k].wrote
            /\ calls[k].returned = (TextSubstituted(calls[k]) # TextRead(calls[k]))

\* C10: whenever updateFileContent returns false, the file's bytes after the
\* call are its bytes before the call
C10_FalseLeavesBytes ==
    \A k \in 1..Len(calls) :
        ~calls[k].returned => calls[k].after = calls[k].before

\* C6: updateFileContent never raises to its caller, and a call that failed
\* reading the file, building the pattern or writing the file returns false
C6_NeverRaises ==
    \A k \in 1..Len(calls) :
        /\ ~calls[k].raised
        /\ calls[k].failed # "none" => ~calls[k].returned

\* a call whose pattern could not be built has returned false
C6_Witness ==
    \E k \in 1..Len(calls) :
        /\ calls[k].failed = "regexp"
        /\ ~calls[k].raised
        /\ ~calls[k].returned

\* C3 as stated: the second call with the same arguments returns false and
\* leaves the content as the first call left it
C3_SecondCallChangesNothing ==
    Len(calls) >= 2 =>
        /\ ~calls[2].returned
        /\ calls[2].after = calls[1].after

\* C3 as amended: the second call with the same arguments returns false and
\* leaves the content as the first call left it, provided the content the
\* first call left holds no match of the pattern built from oldName
C3_SecondCallChangesNothingIfNoMatchLeft ==
    (Len(calls) >= 2 /\ ~HasMatch(Decode(calls[1].after), templateName)) =>
        /\ ~calls[2].returned
        /\ calls[2].after = calls[1].after

\* the first call changed the file, no match is left, the second call
\* returned false
C3_Witness ==
    /\ Len(calls) >= 2
    /\ calls[1].returned
    /\ ~HasMatch(Decode(calls[1].after), templateName)
    /\ ~calls[2].returned
    /\ calls[2].after = calls[1].after

\* the names updateFileContent was called on
CalledNames == {calls[k].name : k \in 1..Len(calls)}

\* C4: the root-file loop calls updateFileContent exactly once on each direct
\* entry that is a regular file and on nothing else; a symlink is never
\* passed to it and never makes the run fail; the reported count is the
\* number of calls that returned true
C4_RegularFilesOnlyOnce ==
    /\ \A k \in 1..Len(calls) : fsys[calls[k].name].kind = "file"
    /\ \A k, l \in 1..Len(calls) : calls[k].name = calls[l].name => k = l
    /\ ~(pc = "exited" /\ result = Throw("statSync"))
    /\ pc = "done" =>
          /\ CalledNames = {n \in DOMAIN fsys : fsys[n].kind = "file"}
          /\ modifiedFiles =
                Cardinality({k \in 1..Len(calls) : calls[k].returned})

ContainsLiteral(text, token) ==
    \E i \in 1..(Len(text) - Len(token) + 1) :
        SubSeq(text, i, i + Len(token) - 1) = token

\* C8: after a successful run no file of the created project, at any depth,
\* still contains the template name
C8_NoTemplateNameLeft ==
    pc = "done" =>
        \A n \in DOMAIN fsys :
            fsys[n].kind \in {"file", "dir"} =>
                ~ContainsLiteral(Decode(fsys[n].bytes), templateName)

\* the order of createProject's side effects
StepOrder ==
    IF projectName = <<".">>
    THEN <<"clone", "rmgit", "init", "substitute", "report">>
    ELSE <<"mkdir", "clone", "rmgit", "init", "substitute", "report">>

\* the side effects performed, without the exit that ends a failed run
StepsTaken == SelectSeq(effects, LAMBDA e : e # "exit")

\* C7: the side effects happen in the order mkdir (not for ".") / clone /
\* remove history / init / substitute / report; nothing is created or cloned
\* unless the URL, the project name and (for ".") the display name are
\* valid; a failed validation or step is followed by no other step: the
\* error is reported and the process exits with status 1
C7_StepOrder ==
    /\ IsPrefix(StepsTaken, StepOrder)
    /\ StepsTaken # <<>> =>
          /\ WellFormedUrl(repoUrl)
          /\ RuleOutcome(FirstRule(projectName), projectName) = Return(projectName)
          /\ projectName = <<".">> =>
                RuleOutcome(FirstRule(cwdBase), cwdBase) = Return(cwdBase)
    /\ \A i \in 1..Len(effects) : effects[i] = "exit" => i = Len(effects)
    /\ calls # <<>> => \E i \in 1..Len(effects) : effects[i] = "substitute"
    /\ pc = "exited" <=> (effects # <<>> /\ effects[Len(effects)] = "exit")
    /\ pc = "exited" => exitCode = 1 /\ result.threw
    /\ pc = "done" <=> StepsTaken = StepOrder
    /\ pc # "exited" => exitCode = 0

\* the clone failed after the directory was made: the run ended there
C7_Witness ==
    /\ pc = "exited"
    /\ effects = <<"mkdir", "clone", "exit">>
    /\ exitCode = 1

====
